---------------------------- MODULE Spec2Model ----------------------------
(***************************************************************************)
(* A model of src/server.js: the OpenAI-compatible proxy in front of the   *)
(* NVIDIA NIM API.  One POST /v1/chat/completions request is followed from *)
(* its arrival to the end of its response: validation, model mapping, the  *)
(* upstream dispatch, the non-streaming response and the streaming         *)
(* handlers ('data', 'end', 'error') with their carry buffer.              *)
(*                                                                         *)
(* JavaScript values are tagged records ([t |-> "string", s |-> ...]).     *)
(* Strings of the request and of a buffered upstream body are TLA+         *)
(* strings; the text of an upstream stream is a sequence of code points,   *)
(* decoded chunk by chunk from the bytes on the wire.                      *)
(***************************************************************************)
EXTENDS Integers, Sequences, FiniteSets, TLC

(***************************************************************************)
(* JavaScript values                                                       *)
(***************************************************************************)
Undefined == [t |-> "undefined"]
Null == [t |-> "null"]
Str(s) == [t |-> "string", s |-> s]
Num(n) == [t |-> "number", n |-> n]
Bool(b) == [t |-> "boolean", b |-> b]
Arr(a) == [t |-> "array", a |-> a]
Obj(f) == [t |-> "object", f |-> f]

\* !v is false: the value converts to true
Truthy(v) ==
  CASE v.t = "undefined" -> FALSE
    [] v.t = "null" -> FALSE
    [] v.t = "string" -> Len(v.s) # 0
    [] v.t = "number" -> v.n # 0
    [] v.t = "boolean" -> v.b
    [] OTHER -> TRUE

\* a || b
OrElse(a, b) == IF Truthy(a) THEN a ELSE b

Nullish(v) == v.t \in {"undefined", "null"}

(***************************************************************************)
(* Text of the upstream stream: code points                                *)
(***************************************************************************)
\* 'choices'
K_choices == <<99, 104, 111, 105, 99, 101, 115>>
\* 'delta'
K_delta == <<100, 101, 108, 116, 97>>
\* 'role'
K_role == <<114, 111, 108, 101>>
\* 'content'
K_content == <<99, 111, 110, 116, 101, 110, 116>>
\* 'finish_reason'
K_finish_reason == <<102, 105, 110, 105, 115, 104, 95, 114, 101, 97, 115, 111, 110>>
\* '0'
K_0 == <<48>>
\* 'data: '
DataPrefix == <<100, 97, 116, 97, 58, 32>>
\* '[DONE]'
DoneToken == <<91, 68, 79, 78, 69, 93>>
\* '\n'
Newline == 10
\* U+FFFD, what the decoder puts in place of bytes that are not UTF-8
ReplacementChar == 65533

\* chunk.toString(): the UTF-8 decoding of one chunk on its own.  One-byte and
\* two-byte forms; a lead byte without its continuation byte and a
\* continuation byte without its lead byte each decode to U+FFFD.
Utf8Decode(bytes) ==
  LET n == Len(bytes)
      IsPair(i) == /\ bytes[i] >= 194 /\ bytes[i] <= 223
                   /\ i < n
                   /\ bytes[i + 1] >= 128 /\ bytes[i + 1] <= 191
      Starts(i) == i = 1 \/ ~IsPair(i - 1)
      starts == SelectSeq([i \in 1..n |-> i], Starts)
      CodePoint(i) ==
        IF bytes[i] < 128 THEN bytes[i]
        ELSE IF IsPair(i) THEN (bytes[i] - 192) * 64 + (bytes[i + 1] - 128)
        ELSE ReplacementChar
  IN [j \in 1..Len(starts) |-> CodePoint(starts[j])]

\* String.prototype.split('\n'): the pieces between the newlines, never empty
Split(s) ==
  LET IsNewline(i) == s[i] = Newline
      nl == SelectSeq([i \in 1..Len(s) |-> i], IsNewline)
  IN [j \in 1..(Len(nl) + 1) |->
        SubSeq(s, IF j = 1 THEN 1 ELSE nl[j - 1] + 1,
                  IF j = Len(nl) + 1 THEN Len(s) ELSE nl[j] - 1)]

\* String.prototype.startsWith
StartsWith(s, p) == Len(s) >= Len(p) /\ SubSeq(s, 1, Len(p)) = p

\* String.prototype.includes
Includes(s, p) ==
  \E i \in 1..(Len(s) - Len(p) + 1) : SubSeq(s, i, i + Len(p) - 1) = p

\* String.prototype.slice(n)
Slice(s, n) == SubSeq(s, n + 1, Len(s))

(***************************************************************************)
(* JSON.parse over code points.  The grammar of RFC 8259 with integer      *)
(* numbers; none of the stream inputs drawn below has a fraction or an     *)
(* exponent.  ok = FALSE stands for the SyntaxError JSON.parse throws.     *)
(***************************************************************************)
ParseFail == [ok |-> FALSE]
ParseOk(v, i) == [ok |-> TRUE, v |-> v, i |-> i]

\* the code point at i, -1 past the end
At(s, i) == IF i >= 1 /\ i <= Len(s) THEN s[i] ELSE -1

IsWs(c) == c \in {32, 9, 10, 13}
IsDigit(c) == c >= 48 /\ c <= 57

HexVal(c) ==
  IF c >= 48 /\ c <= 57 THEN c - 48
  ELSE IF c >= 65 /\ c <= 70 THEN c - 55
  ELSE IF c >= 97 /\ c <= 102 THEN c - 87
  ELSE -1

RECURSIVE SkipWs(_, _)
SkipWs(s, i) == IF IsWs(At(s, i)) THEN SkipWs(s, i + 1) ELSE i

\* i is past the opening quote; acc holds the characters read so far
RECURSIVE ParseStringBody(_, _, _)
ParseStringBody(s, i, acc) ==
  LET c == At(s, i)
      e == At(s, i + 1)
      h == [k \in 1..4 |-> HexVal(At(s, i + 1 + k))]
  IN
  IF c = -1 \/ (c >= 0 /\ c < 32) THEN ParseFail
  ELSE IF c = 34 THEN ParseOk(Str(acc), i + 1)
  ELSE IF c # 92 THEN ParseStringBody(s, i + 1, Append(acc, c))
  ELSE IF e \in {34, 92, 47} THEN ParseStringBody(s, i + 2, Append(acc, e))
  ELSE IF e = 98 THEN ParseStringBody(s, i + 2, Append(acc, 8))
  ELSE IF e = 102 THEN ParseStringBody(s, i + 2, Append(acc, 12))
  ELSE IF e = 110 THEN ParseStringBody(s, i + 2, Append(acc, 10))
  ELSE IF e = 114 THEN ParseStringBody(s, i + 2, Append(acc, 13))
  ELSE IF e = 116 THEN ParseStringBody(s, i + 2, Append(acc, 9))
  ELSE IF e = 117 /\ \A k \in 1..4 : h[k] >= 0
       THEN ParseStringBody(s, i + 6,
              Append(acc, ((h[1] * 16 + h[2]) * 16 + h[3]) * 16 + h[4]))
  ELSE ParseFail

RECURSIVE ParseDigits(_, _, _)
ParseDigits(s, i, acc) ==
  IF IsDigit(At(s, i)) THEN ParseDigits(s, i + 1, acc * 10 + (At(s, i) - 48))
  ELSE [n |-> acc, i |-> i]

\* -? ( 0 | [1-9][0-9]* )
ParseNumber(s, i) ==
  LET neg == At(s, i) = 45
      j == IF neg THEN i + 1 ELSE i
      d == ParseDigits(s, j, 0)
  IN
  IF ~IsDigit(At(s, j)) THEN ParseFail
  ELSE IF At(s, j) = 48 THEN ParseOk(Num(0), j + 1)
  ELSE ParseOk(Num(IF neg THEN 0 - d.n ELSE d.n), d.i)

ParseLiteral(s, i, word, v) ==
  IF i + Len(word) - 1 <= Len(s) /\ SubSeq(s, i, i + Len(word) - 1) = word
  THEN ParseOk(v, i + Len(word))
  ELSE ParseFail

RECURSIVE ParseValue(_, _)
RECURSIVE ParseMembers(_, _, _)
RECURSIVE ParseElements(_, _, _)

\* i is at the first character of a member's key; acc maps the keys read so
\* far (a later duplicate of a key replaces the earlier one)
ParseMembers(s, i, acc) ==
  IF At(s, i) # 34 THEN ParseFail
  ELSE LET k == ParseStringBody(s, i + 1, <<>>) IN
    IF ~k.ok THEN ParseFail
    ELSE LET c == SkipWs(s, k.i) IN
      IF At(s, c) # 58 THEN ParseFail
      ELSE LET v == ParseValue(s, c + 1) IN
        IF ~v.ok THEN ParseFail
        ELSE LET m == SkipWs(s, v.i)
                 acc2 == (k.v.s :> v.v) @@ acc
             IN
          IF At(s, m) = 44 THEN ParseMembers(s, SkipWs(s, m + 1), acc2)
          ELSE IF At(s, m) = 125 THEN ParseOk(Obj(acc2), m + 1)
          ELSE ParseFail

\* i is at the first character of an element; acc holds the elements read
ParseElements(s, i, acc) ==
  LET v == ParseValue(s, i) IN
  IF ~v.ok THEN ParseFail
  ELSE LET m == SkipWs(s, v.i) IN
    IF At(s, m) = 44 THEN ParseElements(s, m + 1, Append(acc, v.v))
    ELSE IF At(s, m) = 93 THEN ParseOk(Arr(Append(acc, v.v)), m + 1)
    ELSE ParseFail

ParseValue(s, i0) ==
  LET i == SkipWs(s, i0)
      c == At(s, i)
      j == SkipWs(s, i + 1)
  IN
  IF c = 123 THEN
    IF At(s, j) = 125 THEN ParseOk(Obj(<<>>), j + 1) ELSE ParseMembers(s, j, <<>>)
  ELSE IF c = 91 THEN
    IF At(s, j) = 93 THEN ParseOk(Arr(<<>>), j + 1) ELSE ParseElements(s, j, <<>>)
  ELSE IF c = 34 THEN ParseStringBody(s, i + 1, <<>>)
  ELSE IF c = 45 \/ IsDigit(c) THEN ParseNumber(s, i)
  ELSE IF c = 116 THEN ParseLiteral(s, i, <<116, 114, 117, 101>>, Bool(TRUE))
  ELSE IF c = 102 THEN ParseLiteral(s, i, <<102, 97, 108, 115, 101>>, Bool(FALSE))
  ELSE IF c = 110 THEN ParseLiteral(s, i, <<110, 117, 108, 108>>, Null)
  ELSE ParseFail

JSONParse(s) ==
  LET r == ParseValue(s, 1) IN
  IF r.ok /\ SkipWs(s, r.i) = Len(s) + 1 THEN [ok |-> TRUE, v |-> r.v]
  ELSE [ok |-> FALSE]

(***************************************************************************)
(* Property reads and serialisation                                        *)
(***************************************************************************)
\* v.k of a value that is not null or undefined: an own member of an object,
\* undefined for the member names this program reads of anything else
Member(v, k) ==
  IF v.t = "object" /\ k \in DOMAIN v.f THEN v.f[k] ELSE Undefined

\* v?.k
OptMember(v, k) == IF Nullish(v) THEN Undefined ELSE Member(v, k)

\* v?.[0] with the member name '0' given as key0: the first element of an
\* array, the first character of a string, the member '0' of an object
OptIndex0(v, key0) ==
  IF Nullish(v) THEN Undefined
  ELSE IF v.t = "array" THEN (IF Len(v.a) > 0 THEN v.a[1] ELSE Undefined)
  ELSE IF v.t = "string" THEN (IF Len(v.s) > 0 THEN Str(<<v.s[1]>>) ELSE Undefined)
  ELSE Member(v, key0)

\* delete obj[k]
Delete(obj, k) == Obj([x \in DOMAIN obj.f \ {k} |-> obj.f[x]])

\* JSON.stringify, the text it produces given by its syntax tree: a member
\* whose value is undefined or a function is left out, and an array element
\* that is undefined or a function is written null
Unserialisable(v) == v.t \in {"undefined", "function"}

RECURSIVE JSONStringify(_)
JSONStringify(v) ==
  IF v.t = "object"
  THEN Obj([k \in {x \in DOMAIN v.f : ~Unserialisable(v.f[x])} |-> JSONStringify(v.f[k])])
  ELSE IF v.t = "array"
  THEN Arr([i \in 1..Len(v.a) |->
              IF Unserialisable(v.a[i]) THEN Null ELSE JSONStringify(v.a[i])])
  ELSE v

\* Date.now(): the clock is read at one instant, milliseconds
DateNow == 1700000000

DateNowId == Str("chatcmpl-" \o ToString(DateNow))

(***************************************************************************)
(* The streaming branch (server.js 107-168)                                *)
(***************************************************************************)
\* res.write('data: [DONE]\n\n')
SentinelRecord == [kind |-> "sentinel"]
\* res.write(`data: ${JSON.stringify(openaiChunk)}\n\n`)
ChunkRecord(json) == [kind |-> "chunk", json |-> json]

\* nimData.choices?.[0]
Choice0(nimData) == OptIndex0(Member(nimData, K_choices), K_0)

\* the object literal of lines 131-144
OpenaiChunkLiteral(model, nimData) ==
  Obj([id |-> DateNowId,
       object |-> Str("chat.completion.chunk"),
       created |-> Num(DateNow \div 1000),
       model |-> model,
       choices |-> Arr(<<Obj(
         [index |-> Num(0),
          delta |-> Obj(
            [role |-> OptMember(OptMember(Choice0(nimData), K_delta), K_role),
             content |-> OrElse(OptMember(OptMember(Choice0(nimData), K_delta), K_content),
                                Str(<<>>))]),
          finish_reason |-> OrElse(OptMember(Choice0(nimData), K_finish_reason), Null)])>>)])

\* lines 147-149 left out
KeepRole(delta) == delta

\* lines 147-149: if (!delta.role) delete delta.role
RemoveFalsyRole(delta) ==
  IF ~Truthy(Member(delta, "role")) THEN Delete(delta, "role") ELSE delta

\* openaiChunk as it stands when it is serialised (line 151)
OpenaiChunk(model, nimData) ==
  LET lit == OpenaiChunkLiteral(model, nimData)
      choice == lit.f.choices.a[1]
  IN Obj([lit.f EXCEPT !.choices =
            Arr(<<Obj([choice.f EXCEPT !.delta = RemoveFalsyRole(choice.f.delta)])>>)])

\* the body of lines.forEach with a record written for a line that does
\* not parse
LineRecordsErrorOnMalformed(model, line) ==
  IF ~StartsWith(line, DataPrefix) THEN <<>>
  ELSE IF Includes(line, DoneToken) THEN <<SentinelRecord>>
  ELSE LET parsed == JSONParse(Slice(line, 6)) IN
    IF ~parsed.ok THEN <<[kind |-> "error"]>>
    ELSE IF parsed.v.t = "null" THEN <<>>
    ELSE <<ChunkRecord(JSONStringify(OpenaiChunk(model, parsed.v)))>>

\* the body of lines.forEach without the test of lines 122-125
LineRecordsNoSentinelTest(model, line) ==
  IF ~StartsWith(line, DataPrefix) THEN <<>>
  ELSE LET parsed == JSONParse(Slice(line, 6)) IN
    IF ~parsed.ok THEN <<>>
    ELSE IF parsed.v.t = "null" THEN <<>>
    ELSE <<ChunkRecord(JSONStringify(OpenaiChunk(model, parsed.v)))>>

\* the body of lines.forEach for one line: the records it writes.  A
\* SyntaxError of JSON.parse and the TypeError of reading .choices of null
\* are caught at line 152 and nothing is written.
LineRecords(model, line) ==
  IF ~StartsWith(line, DataPrefix) THEN <<>>
  ELSE IF Includes(line, DoneToken) THEN <<SentinelRecord>>
  ELSE LET parsed == JSONParse(Slice(line, 6)) IN
    IF ~parsed.ok THEN <<>>
    ELSE IF parsed.v.t = "null" THEN <<>>
    ELSE <<ChunkRecord(JSONStringify(OpenaiChunk(model, parsed.v)))>>

\* the lines visited last to first
RECURSIVE ForEachLineReversed(_, _, _)
ForEachLineReversed(model, lines, i) ==
  IF i > Len(lines) THEN <<>>
  ELSE LET recs == LineRecords(model, lines[i]) IN
       ForEachLineReversed(model, lines, i + 1)
         \o [j \in 1..Len(recs) |-> [line |-> i, record |-> recs[j]]]

\* lines.forEach from line i on: each record with the index of its line
RECURSIVE ForEachLine(_, _, _)
ForEachLine(model, lines, i) ==
  IF i > Len(lines) THEN <<>>
  ELSE LET recs == LineRecords(model, lines[i]) IN
       [j \in 1..Len(recs) |-> [line |-> i, record |-> recs[j]]]
         \o ForEachLine(model, lines, i + 1)

\* buffer = lines.pop() || ''
PopLast(lines) == lines[Len(lines)]

\* the lines that forEach visits: all but the popped one
CompleteLines(lines) == SubSeq(lines, 1, Len(lines) - 1)

\* response.data.on('data'): the new carry buffer, the complete lines in the
\* order they are processed and the records written, each with its line
DataHandler(model, buffer, chunk) ==
  LET text == buffer \o Utf8Decode(chunk)
      lines == Split(text)
      complete == CompleteLines(lines)
  IN [buffer |-> PopLast(lines),
      lines |-> complete,
      writes |-> ForEachLine(model, complete, 1)]

(***************************************************************************)
(* The request handler up to the upstream dispatch (server.js 58-105)      *)
(***************************************************************************)
DEFAULT_NIM_MODEL == "meta/llama-3.1-70b-instruct"

MODEL_MAPPING ==
  [k \in {"gpt-3.5-turbo", "gpt-4", "gpt-4-turbo", "gpt-4o", "gpt-4o-mini",
          "claude-3-opus", "claude-3-sonnet", "claude-3-haiku", "gemini-pro"} |->
     CASE k = "gpt-3.5-turbo" -> "meta/llama-3.1-8b-instruct"
       [] k = "gpt-4" -> "meta/llama-3.1-70b-instruct"
       [] k = "gpt-4-turbo" -> "meta/llama-3.1-405b-instruct"
       [] k = "gpt-4o" -> "meta/llama-3.1-405b-instruct"
       [] k = "gpt-4o-mini" -> "meta/llama-3.1-8b-instruct"
       [] k = "claude-3-opus" -> "meta/llama-3.1-405b-instruct"
       [] k = "claude-3-sonnet" -> "meta/llama-3.1-70b-instruct"
       [] k = "claude-3-haiku" -> "meta/llama-3.1-8b-instruct"
       [] k = "gemini-pro" -> "meta/llama-3.1-70b-instruct"]

\* MODEL_MAPPING is an object literal, so a read of a name it does not own
\* goes on to Object.prototype: these names read as its functions, and
\* '__proto__' reads as Object.prototype itself
ObjectPrototypeFunctions ==
  {"constructor", "toString", "toLocaleString", "valueOf", "hasOwnProperty",
   "isPrototypeOf", "propertyIsEnumerable", "__defineGetter__",
   "__defineSetter__", "__lookupGetter__", "__lookupSetter__"}

\* MODEL_MAPPING[name]
MappingLookup(name) ==
  IF name \in DOMAIN MODEL_MAPPING THEN Str(MODEL_MAPPING[name])
  ELSE IF name \in ObjectPrototypeFunctions THEN [t |-> "function", name |-> name]
  ELSE IF name = "__proto__" THEN Obj(<<>>)
  ELSE Undefined

\* line 87: MODEL_MAPPING[model] || DEFAULT_NIM_MODEL
NimModel(model) == OrElse(MappingLookup(model.s), Str(DEFAULT_NIM_MODEL))

\* line 63 without the test of the empty string
ModelInvalidTypeOnly(body) == body.model.t # "string"

\* line 63
ModelInvalid(body) == ~Truthy(body.model) \/ body.model.t # "string"

\* line 75 without the test of the length
MessagesInvalidNoLength(body) == ~Truthy(body.messages) \/ body.messages.t # "array"

\* line 75
MessagesInvalid(body) ==
  \/ ~Truthy(body.messages)
  \/ body.messages.t # "array"
  \/ Len(body.messages.a) = 0

ErrorEnvelope(message, param, code) ==
  Obj([error |-> Obj([message |-> message,
                      type |-> Str("invalid_request_error"),
                      param |-> param,
                      code |-> code])])

\* 0.7
DefaultTemperature == [t |-> "number", n |-> 7, e |-> -1]

\* lines 90-96
NimRequest(body) ==
  Obj([model |-> NimModel(body.model),
       messages |-> body.messages,
       temperature |-> IF body.temperature.t # "undefined"
                       THEN body.temperature ELSE DefaultTemperature,
       max_tokens |-> OrElse(body.max_tokens, Num(2048)),
       stream |-> OrElse(body.stream, Bool(FALSE))])

\* line 104
ResponseType(body) == IF Truthy(body.stream) THEN "stream" ELSE "json"

\* model: nimModel in place of model: model
ResponseModelBackend(body) == NimModel(body.model)

\* lines 135 and 175: model: model
ResponseModel(body) == body.model

(***************************************************************************)
(* The non-streaming branch and the catch block (server.js 169-209)        *)
(***************************************************************************)
\* response.data.choices?.[0]
DataChoice0(data) == OptIndex0(Member(data, "choices"), "0")

\* response.data.usage?.<counter> || 0
UsageCounter(data, counter) ==
  OrElse(OptMember(Member(data, "usage"), counter), Num(0))

\* lines 171-189
OpenaiResponse(body, data) ==
  Obj([id |-> DateNowId,
       object |-> Str("chat.completion"),
       created |-> Num(DateNow \div 1000),
       model |-> ResponseModel(body),
       choices |-> Arr(<<Obj(
         [index |-> Num(0),
          message |-> Obj(
            [role |-> Str("assistant"),
             content |-> OrElse(OptMember(OptMember(DataChoice0(data), "message"), "content"),
                                Str(""))]),
          finish_reason |-> OrElse(OptMember(DataChoice0(data), "finish_reason"),
                                   Str("stop"))])>>),
       usage |-> Obj(
         [prompt_tokens |-> UsageCounter(data, "prompt_tokens"),
          completion_tokens |-> UsageCounter(data, "completion_tokens"),
          total_tokens |-> UsageCounter(data, "total_tokens")])])

\* the status of the catch block without error.response?.status
CatchStatusAlways500(error) == Num(500)

\* lines 198-208, for the error caught: error.response?.status || 500 and
\* error.response?.data?.error?.message || error.message || 'Internal server error'
CatchStatus(error) == OrElse(OptMember(Member(error, "response"), "status"), Num(500))

CatchMessage(error) ==
  OrElse(OrElse(OptMember(OptMember(OptMember(Member(error, "response"), "data"),
                                    "error"), "message"),
                Member(error, "message")),
         Str("Internal server error"))

CatchEnvelope(error) == ErrorEnvelope(CatchMessage(error), Null, CatchStatus(error))

\* the TypeError of reading a member of null
TypeErrorOfNull ==
  Obj([message |-> Str("Cannot read properties of null (reading 'choices')")])

(***************************************************************************)
(* Inputs: request bodies, upstream responses and upstream streams         *)
(***************************************************************************)
\* the most data events one upstream stream delivers
MaxChunks == 3

Body(model, messages, temperature, max_tokens, stream) ==
  [model |-> model, messages |-> messages, temperature |-> temperature,
   max_tokens |-> max_tokens, stream |-> stream]

UserMessage == Obj([role |-> Str("user"), content |-> Str("hi")])
AssistantMessage == Obj([role |-> Str("assistant"), content |-> Str("hello")])

ModelInputs ==
  {Undefined, Null, Str(""), Num(42), Bool(TRUE), Arr(<<Str("gpt-4")>>),
   Str("gpt-4"), Str("GPT-4"), Str("foo-bar"), Str("4"), Str("constructor"),
   Str("__proto__")}

MessagesInputs ==
  {Undefined, Null, Str("hi"), Num(0), Obj([length |-> Num(1)]), Arr(<<>>),
   Arr(<<UserMessage>>), Arr(<<UserMessage, AssistantMessage, UserMessage>>)}

\* every model input with every messages input, the options absent
ValidationBodies ==
  {Body(m, ms, Undefined, Undefined, Undefined) : m \in ModelInputs, ms \in MessagesInputs}

\* every name of the table
TableBodies ==
  {Body(Str(k), Arr(<<UserMessage>>), Undefined, Undefined, Undefined) :
     k \in DOMAIN MODEL_MAPPING}

\* the options, present and absent, of a request that is not streamed
OptionBodies ==
  {Body(Str("gpt-4"), Arr(<<UserMessage>>), t, mt, st) :
     t \in {Undefined, Num(0), Num(1)},
     mt \in {Undefined, Num(0), Num(100)},
     st \in {Undefined, Bool(FALSE)}}

\* streamed requests
StreamBodies ==
  {Body(Str("gpt-4"), Arr(<<UserMessage>>), Undefined, Undefined, Bool(TRUE)),
   Body(Str("foo-bar"), Arr(<<UserMessage, AssistantMessage, UserMessage>>),
        Num(0), Num(0), Num(1))}

Requests == ValidationBodies \cup TableBodies \cup OptionBodies \cup StreamBodies

\* response.data of a buffered upstream response
UpstreamBodies ==
  << Obj([choices |-> Arr(<<Obj([message |-> Obj([content |-> Str("hello")]),
                                 finish_reason |-> Str("stop")])>>),
          usage |-> Obj([prompt_tokens |-> Num(3), completion_tokens |-> Num(1),
                         total_tokens |-> Num(4)])]),
     Obj(<<>>),
     Obj([choices |-> Arr(<<>>)]),
     Obj([choices |-> Arr(<<Obj(<<>>)>>), usage |-> Obj(<<>>)]),
     Obj([choices |-> Arr(<<Obj([message |-> Null, finish_reason |-> Null])>>),
          usage |-> Null]),
     Obj([choices |-> Arr(<<Obj([message |-> Obj([content |-> Str("")]),
                                 finish_reason |-> Str("length")])>>),
          usage |-> Obj([prompt_tokens |-> Num(0)])]),
     Obj([choices |-> Arr(<<Obj([message |-> Obj([content |-> Num(5)])])>>),
          usage |-> Obj([prompt_tokens |-> Num(-1), completion_tokens |-> Str("7"),
                         total_tokens |-> Null])]),
     Str("<html>"),
     Null >>

\* what axios.post rejects with
UpstreamErrors ==
  << Obj([message |-> Str("connect ECONNREFUSED")]),
     Obj([message |-> Str("")]),
     Obj([message |-> Str("Request failed with status code 429"),
          response |-> Obj([status |-> Num(429),
                            data |-> Obj([error |-> Obj([message |-> Str("rate limited")])])])]),
     Obj([message |-> Str("Request failed with status code 502"),
          response |-> Obj([status |-> Num(502), data |-> Str("Bad Gateway")])]) >>

\* response.data of a response requested with responseType 'stream': the
\* unread stream, which has none of the members the catch block reads
UnreadStream == [t |-> "stream"]

\* the error axios.post rejects with: when the request asked for a stream,
\* the data of its response is the unread stream, not the parsed body
Rejection(error, type) ==
  IF type = "stream" /\ "response" \in DOMAIN error.f
  THEN Obj([error.f EXCEPT !.response = Obj([@.f EXCEPT !.data = UnreadStream])])
  ELSE error

\* data: {"choices":[{"delta":{"content":"A"}}]}
LineContentA ==
  <<100, 97, 116, 97, 58, 32, 123, 34, 99, 104, 111, 105, 99, 101, 115, 34,
     58, 91, 123, 34, 100, 101, 108, 116, 97, 34, 58, 123, 34, 99, 111, 110,
     116, 101, 110, 116, 34, 58, 34, 65, 34, 125, 125, 93, 125>>
\* data: {"choices":[{"delta":{"role":"ai","content":"é"}}]}
LineRoleAccent ==
  <<100, 97, 116, 97, 58, 32, 123, 34, 99, 104, 111, 105, 99, 101, 115, 34,
     58, 91, 123, 34, 100, 101, 108, 116, 97, 34, 58, 123, 34, 114, 111,
     108, 101, 34, 58, 34, 97, 105, 34, 44, 34, 99, 111, 110, 116, 101, 110,
     116, 34, 58, 34, 195, 169, 34, 125, 125, 93, 125>>
\* data: {"choices":[{"delta":{"role":""},"finish_reason":"stop"}]}
LineFinish ==
  <<100, 97, 116, 97, 58, 32, 123, 34, 99, 104, 111, 105, 99, 101, 115, 34,
     58, 91, 123, 34, 100, 101, 108, 116, 97, 34, 58, 123, 34, 114, 111,
     108, 101, 34, 58, 34, 34, 125, 44, 34, 102, 105, 110, 105, 115, 104,
     95, 114, 101, 97, 115, 111, 110, 34, 58, 34, 115, 116, 111, 112, 34,
     125, 93, 125>>
\* data: {"choices":[{"delta":{"role":null}}]}
LineRoleNull ==
  <<100, 97, 116, 97, 58, 32, 123, 34, 99, 104, 111, 105, 99, 101, 115, 34,
     58, 91, 123, 34, 100, 101, 108, 116, 97, 34, 58, 123, 34, 114, 111,
     108, 101, 34, 58, 110, 117, 108, 108, 125, 125, 93, 125>>
\* data: [DONE]
LineDone ==
  <<100, 97, 116, 97, 58, 32, 91, 68, 79, 78, 69, 93>>
\* data: {oops
LineMalformed ==
  <<100, 97, 116, 97, 58, 32, 123, 111, 111, 112, 115>>
\* data: null
LineNull ==
  <<100, 97, 116, 97, 58, 32, 110, 117, 108, 108>>
\* : ping
LineComment ==
  <<58, 32, 112, 105, 110, 103>>

\* data: {"choices":[{"delta":{"content":null},"finish_reason":""}]}
LineContentNull ==
  <<100, 97, 116, 97, 58, 32, 123, 34, 99, 104, 111, 105, 99, 101,
     115, 34, 58, 91, 123, 34, 100, 101, 108, 116, 97, 34, 58, 123,
     34, 99, 111, 110, 116, 101, 110, 116, 34, 58, 110, 117, 108, 108,
     125, 44, 34, 102, 105, 110, 105, 115, 104, 95, 114, 101, 97, 115,
     111, 110, 34, 58, 34, 34, 125, 93, 125>>
\* data: 5
LineNumber ==
  <<100, 97, 116, 97, 58, 32, 53>>

\* the lines of one stream, each followed by '\n'
RECURSIVE JoinLines(_)
JoinLines(ls) ==
  IF ls = <<>> THEN <<>> ELSE Head(ls) \o <<Newline>> \o JoinLines(Tail(ls))

\* the bytes an upstream stream may deliver; it may end after any of them
UpstreamStreams ==
  << JoinLines(<<LineContentA, <<>>, LineDone, <<>>>>),
     JoinLines(<<LineRoleAccent, LineFinish>>),
     JoinLines(<<LineComment, LineMalformed, LineNull, LineRoleNull, LineContentA>>),
     JoinLines(<<LineDone \o <<13>>, LineContentA \o <<13>>, LineDone>>),
     JoinLines(<<LineContentNull, LineNumber>>) >>

(***************************************************************************)
(* State                                                                   *)
(***************************************************************************)
VARIABLES
  body,          \* req.body
  pc,            \* "received", "awaiting" (axios.post), "streaming", "done"
  nimRequest,    \* the body of the upstream request, undefined before it
  responseType,  \* the responseType of the upstream request
  status,        \* the status of res.status(..).json(..) / res.json(..), 0 before
  sent,          \* the JSON body sent with res.json, undefined before
  headers,       \* the headers set with res.setHeader
  wire,          \* the bytes of the upstream stream
  pos,           \* how many of them have been delivered in 'data' events
  nchunks,       \* the number of 'data' events
  buffer,        \* let buffer (line 113)
  written,       \* the records written with res.write, in order
  ended,         \* the number of calls of res.end()
  upstream,      \* the last event of the upstream stream: "data", "end", "error"
  processed,     \* history: the complete lines visited by forEach, in order
  origin,        \* history: for each record written, the number of its line
                 \* in processed (0 for the record of the 'end' handler)
  closedAt,      \* history: the number of records written when res.end() was
                 \* first called, -1 before
  disconnected,  \* the client has closed its connection
  rejected,      \* history: what axios.post rejected with, undefined otherwise
  cbuffer,       \* two requests at once: let buffer of each invocation of the handler
  creq,          \* two requests at once: for each request its position in the
                 \* handler, the bytes delivered, the number of 'data' events,
                 \* the records written to its res, the calls of its res.end()
  alone          \* history: the carry buffer and the records of each request
                 \* fed the same events with no other request running

vars == <<body, pc, nimRequest, responseType, status, sent, headers, wire, pos,
          nchunks, buffer, written, ended, upstream, processed, origin,
          closedAt, disconnected, rejected, cbuffer, creq, alone>>

\* the state of the single request
singleVars == <<body, pc, nimRequest, responseType, status, sent, headers, wire, pos,
                nchunks, buffer, written, ended, upstream, processed, origin,
                closedAt, disconnected, rejected>>

\* the state of the two requests running at once
concVars == <<cbuffer, creq, alone>>

streamVars == <<wire, pos, nchunks, buffer, written, ended, upstream, processed, origin,
                closedAt, disconnected>>

Init ==
  /\ body \in Requests
  /\ pc = "received"
  /\ nimRequest = Undefined
  /\ responseType = "none"
  /\ status = 0
  /\ sent = Undefined
  /\ headers = {}
  /\ wire = <<>>
  /\ pos = 0
  /\ nchunks = 0
  /\ buffer = <<>>
  /\ written = <<>>
  /\ ended = 0
  /\ upstream = "none"
  /\ processed = <<>>
  /\ origin = <<>>
  /\ closedAt = -1
  /\ disconnected = FALSE
  /\ rejected = Undefined
  /\ cbuffer = <<>>
  /\ creq = <<>>
  /\ alone = <<>>

(***************************************************************************)
(* Actions                                                                 *)
(***************************************************************************)
\* res.status(code).json(envelope)
Respond(code, envelope) ==
  /\ status' = code
  /\ sent' = JSONStringify(envelope)
  /\ pc' = "done"

\* lines 60-105: validation, the upstream request, up to the await
HandleRequest ==
  /\ UNCHANGED concVars
  /\ pc = "received"
  /\ IF ModelInvalid(body)
     THEN /\ Respond(400, ErrorEnvelope(Str("you must provide a model parameter"),
                                        Str("model"), Null))
          /\ UNCHANGED <<nimRequest, responseType>>
     ELSE IF MessagesInvalid(body)
     THEN /\ Respond(400, ErrorEnvelope(
                 Str("messages is required and must be a non-empty array"),
                 Str("messages"), Null))
          /\ UNCHANGED <<nimRequest, responseType>>
     ELSE /\ nimRequest' = NimRequest(body)
          /\ responseType' = ResponseType(body)
          /\ pc' = "awaiting"
          /\ UNCHANGED <<status, sent>>
  /\ UNCHANGED <<body, headers, rejected>>
  /\ UNCHANGED streamVars

\* axios.post resolves with a buffered body and stream is not set: lines
\* 169-192, and the catch block when reading response.data throws
UpstreamResolvesJson ==
  /\ UNCHANGED concVars
  /\ pc = "awaiting"
  /\ responseType = "json"
  /\ \E i \in 1..Len(UpstreamBodies) :
       LET data == UpstreamBodies[i] IN
       IF data.t = "null"
       THEN Respond(CatchStatus(TypeErrorOfNull).n, CatchEnvelope(TypeErrorOfNull))
       ELSE Respond(200, OpenaiResponse(body, data))
  /\ UNCHANGED <<body, nimRequest, responseType, headers, rejected>>
  /\ UNCHANGED streamVars

\* axios.post rejects: lines 194-209
UpstreamRejects ==
  /\ UNCHANGED concVars
  /\ pc = "awaiting"
  /\ \E i \in 1..Len(UpstreamErrors) :
       \E error \in {Rejection(UpstreamErrors[i], responseType)} :
       /\ rejected' = error
       /\ Respond(CatchStatus(error).n, CatchEnvelope(error))
  /\ UNCHANGED <<body, nimRequest, responseType, headers>>
  /\ UNCHANGED streamVars

\* axios.post resolves with a stream and stream is set: lines 107-113 and
\* the registration of the three handlers
UpstreamResolvesStream ==
  /\ UNCHANGED concVars
  /\ pc = "awaiting"
  /\ responseType = "stream"
  /\ \E i \in 1..Len(UpstreamStreams) : wire' = UpstreamStreams[i]
  /\ headers' = {<<"Content-Type", "text/event-stream">>,
                 <<"Cache-Control", "no-cache">>,
                 <<"Connection", "keep-alive">>}
  /\ buffer' = <<>>
  /\ pc' = "streaming"
  /\ UNCHANGED <<body, nimRequest, responseType, status, sent>>
  /\ UNCHANGED <<pos, nchunks, written, ended, upstream, processed, origin,
                 closedAt, disconnected, rejected>>

\* response.data.on('data'): the next k bytes of the stream arrive as a chunk
\* (r is bound by \E so that the handler is evaluated once for the step)
OnData ==
  /\ UNCHANGED concVars
  /\ pc = "streaming"
  /\ nchunks < MaxChunks
  /\ \E k \in 1..(Len(wire) - pos) :
       \E r \in {DataHandler(ResponseModel(body), buffer, SubSeq(wire, pos + 1, pos + k))} :
       /\ pos' = pos + k
       /\ buffer' = r.buffer
       /\ written' = written \o [j \in 1..Len(r.writes) |-> r.writes[j].record]
       /\ origin' = origin \o [j \in 1..Len(r.writes) |-> Len(processed) + r.writes[j].line]
       /\ processed' = processed \o r.lines
  /\ nchunks' = nchunks + 1
  /\ upstream' = "data"
  /\ UNCHANGED <<body, pc, nimRequest, responseType, status, sent, headers, wire,
                 ended, closedAt, disconnected, rejected>>

\* res.end(): the response is closed with the records written so far
ResEnd(records) ==
  /\ ended' = ended + 1
  /\ closedAt' = IF ended = 0 THEN Len(records) ELSE closedAt

\* the 'end' handler without its res.write
OnEndCloseOnly ==
  /\ UNCHANGED concVars
  /\ pc = "streaming"
  /\ ResEnd(written)
  /\ upstream' = "end"
  /\ pc' = "done"
  /\ UNCHANGED <<body, nimRequest, responseType, status, sent, headers, wire, pos,
                 nchunks, buffer, written, processed, origin, disconnected, rejected>>

\* the 'end' handler with res.end() before res.write
OnEndCloseFirst ==
  /\ UNCHANGED concVars
  /\ pc = "streaming"
  /\ ResEnd(written)
  /\ written' = Append(written, SentinelRecord)
  /\ origin' = Append(origin, 0)
  /\ upstream' = "end"
  /\ pc' = "done"
  /\ UNCHANGED <<body, nimRequest, responseType, status, sent, headers, wire, pos,
                 nchunks, buffer, processed, disconnected, rejected>>

\* the 'end' handler processing what is left in the buffer as a last line
OnEndFlushCarry ==
  /\ UNCHANGED concVars
  /\ pc = "streaming"
  /\ \E recs \in {LineRecords(ResponseModel(body), buffer)} :
       /\ written' = written \o recs \o <<SentinelRecord>>
       /\ origin' = origin \o [j \in 1..Len(recs) |-> Len(processed) + 1] \o <<0>>
       /\ processed' = Append(processed, buffer)
       /\ ResEnd(written \o recs \o <<SentinelRecord>>)
  /\ upstream' = "end"
  /\ pc' = "done"
  /\ UNCHANGED <<body, nimRequest, responseType, status, sent, headers, wire, pos,
                 nchunks, buffer, disconnected, rejected>>

\* response.data.on('end'): lines 159-162, res.write and then res.end()
OnEnd ==
  /\ UNCHANGED concVars
  /\ pc = "streaming"
  /\ written' = Append(written, SentinelRecord)
  /\ origin' = Append(origin, 0)
  /\ ResEnd(Append(written, SentinelRecord))
  /\ upstream' = "end"
  /\ pc' = "done"
  /\ UNCHANGED <<body, nimRequest, responseType, status, sent, headers, wire, pos,
                 nchunks, buffer, processed, disconnected, rejected>>

\* the 'error' handler writing the sentinel as the 'end' handler does
OnErrorWritesSentinel ==
  /\ UNCHANGED concVars
  /\ pc = "streaming"
  /\ written' = Append(written, SentinelRecord)
  /\ origin' = Append(origin, 0)
  /\ ResEnd(Append(written, SentinelRecord))
  /\ upstream' = "error"
  /\ pc' = "done"
  /\ UNCHANGED <<body, nimRequest, responseType, status, sent, headers, wire, pos,
                 nchunks, buffer, processed, disconnected, rejected>>

\* response.data.on('error'): lines 164-167
OnError ==
  /\ UNCHANGED concVars
  /\ pc = "streaming"
  /\ ResEnd(written)
  /\ upstream' = "error"
  /\ pc' = "done"
  /\ UNCHANGED <<body, nimRequest, responseType, status, sent, headers, wire, pos,
                 nchunks, buffer, written, processed, origin, disconnected, rejected>>

\* the client closes its connection while the response is streamed.  The
\* handler registers no listener for it (lines 107-168 have no req.on('close')
\* and no abort of the upstream request), so nothing but the connection
\* changes and the three handlers stay registered
ClientDisconnects ==
  /\ UNCHANGED concVars
  /\ pc = "streaming"
  /\ ~disconnected
  /\ disconnected' = TRUE
  /\ UNCHANGED <<body, pc, nimRequest, responseType, status, sent, headers, wire, pos,
                 nchunks, buffer, written, ended, upstream, processed, origin,
                 closedAt, rejected>>

Next ==
  \/ HandleRequest
  \/ UpstreamResolvesJson
  \/ UpstreamRejects
  \/ UpstreamResolvesStream
  \/ OnData
  \/ OnEnd
  \/ OnError
  \/ ClientDisconnects

Spec == Init /\ [][Next]_vars

(***************************************************************************)
(* Two streaming requests at once on the one event loop (server.js 107-168) *)
(***************************************************************************)
Clients == {1, 2}

\* the model each of the two requests names
ConcurrentModels == <<Str("gpt-4"), Str("foo-bar")>>

\* the bytes of the upstream stream of each: 'data: 1\ndata: 2\n' and
\* 'data: [DONE]\ndata: 3\n'
ConcurrentWires ==
  << <<100, 97, 116, 97, 58, 32, 49, 10, 100, 97, 116, 97, 58, 32, 50, 10>>,
     <<100, 97, 116, 97, 58, 32, 91, 68, 79, 78, 69, 93, 10,
       100, 97, 116, 97, 58, 32, 51, 10>> >>

\* one buffer for all the invocations of the handler
BufferSlotShared(r) == 1

\* let buffer is declared inside the handler (line 113): each invocation has
\* its own
BufferSlot(r) == r

InitConcurrent ==
  /\ body = Body(Str("gpt-4"), Arr(<<UserMessage>>), Undefined, Undefined, Bool(TRUE))
  /\ pc = "received"
  /\ nimRequest = Undefined
  /\ responseType = "none"
  /\ status = 0
  /\ sent = Undefined
  /\ headers = {}
  /\ wire = <<>>
  /\ pos = 0
  /\ nchunks = 0
  /\ buffer = <<>>
  /\ written = <<>>
  /\ ended = 0
  /\ upstream = "none"
  /\ processed = <<>>
  /\ origin = <<>>
  /\ closedAt = -1
  /\ disconnected = FALSE
  /\ rejected = Undefined
  /\ cbuffer = [r \in Clients |-> <<>>]
  /\ creq = [r \in Clients |->
               [pc |-> "awaiting", pos |-> 0, nchunks |-> 0, written |-> <<>>, ended |-> 0]]
  /\ alone = [r \in Clients |-> [buffer |-> <<>>, written |-> <<>>]]

\* axios.post of request r resolves with a stream: lines 107-113
ConcResolves(r) ==
  /\ creq[r].pc = "awaiting"
  /\ cbuffer' = [cbuffer EXCEPT ![BufferSlot(r)] = <<>>]
  /\ creq' = [creq EXCEPT ![r].pc = "streaming"]
  /\ alone' = [alone EXCEPT ![r].buffer = <<>>]
  /\ UNCHANGED singleVars

\* the 'data' handler of request r: lines 115-157
ConcOnData(r) ==
  /\ creq[r].pc = "streaming"
  /\ creq[r].nchunks < MaxChunks
  /\ \E k \in 1..(Len(ConcurrentWires[r]) - creq[r].pos) :
       \E chunk \in {SubSeq(ConcurrentWires[r], creq[r].pos + 1, creq[r].pos + k)} :
       \E res \in {DataHandler(ConcurrentModels[r], cbuffer[BufferSlot(r)], chunk)} :
       \E solo \in {DataHandler(ConcurrentModels[r], alone[r].buffer, chunk)} :
       /\ cbuffer' = [cbuffer EXCEPT ![BufferSlot(r)] = res.buffer]
       /\ creq' = [creq EXCEPT
                     ![r].pos = @ + k,
                     ![r].nchunks = @ + 1,
                     ![r].written = @ \o [j \in 1..Len(res.writes) |-> res.writes[j].record]]
       /\ alone' = [alone EXCEPT
                      ![r].buffer = solo.buffer,
                      ![r].written = @ \o [j \in 1..Len(solo.writes) |-> solo.writes[j].record]]
  /\ UNCHANGED singleVars

\* the 'end' handler of request r: lines 159-162
ConcOnEnd(r) ==
  /\ creq[r].pc = "streaming"
  /\ creq' = [creq EXCEPT ![r].written = Append(@, SentinelRecord),
                          ![r].ended = @ + 1,
                          ![r].pc = "end"]
  /\ alone' = [alone EXCEPT ![r].written = Append(@, SentinelRecord)]
  /\ UNCHANGED cbuffer
  /\ UNCHANGED singleVars

\* the 'error' handler of request r: lines 164-167
ConcOnError(r) ==
  /\ creq[r].pc = "streaming"
  /\ creq' = [creq EXCEPT ![r].ended = @ + 1, ![r].pc = "error"]
  /\ UNCHANGED <<cbuffer, alone>>
  /\ UNCHANGED singleVars

NextConcurrent ==
  \/ \E r \in Clients : ConcResolves(r)
  \/ \E r \in Clients : ConcOnData(r)
  \/ \E r \in Clients : ConcOnEnd(r)
  \/ \E r \in Clients : ConcOnError(r)

SpecConcurrent == InitConcurrent /\ [][NextConcurrent]_vars

(***************************************************************************)
(* Properties                                                              *)
(***************************************************************************)
Streamed == pc = "streaming" \/ upstream \in {"data", "end", "error"}

\* the bytes received so far, in all the chunks together
Received == SubSeq(wire, 1, pos)

\* the records written by the 'data' handler: all but the one of 'end'
DataRecords ==
  IF upstream = "end" THEN SubSeq(written, 1, Len(written) - 1) ELSE written

SentinelCount == Cardinality({i \in 1..Len(written) : written[i].kind = "sentinel"})

ChunkIndices == {i \in 1..Len(written) : written[i].kind = "chunk"}

\* C1: when the upstream stream has ended normally, 'data: [DONE]' has been
\* written exactly once, also when the upstream sent a 'data: [DONE]' line
C1_SentinelExactlyOnce == upstream = "end" => SentinelCount = 1

\* C2: the text of all the chunks received so far is the complete lines
\* processed so far, each followed by a newline, followed by the carry buffer
C2_ChunksAreLinesThenCarry ==
  Streamed => Utf8Decode(Received) = JoinLines(processed) \o buffer

\* C3: the records written for the bytes received so far are those written
\* when the same bytes arrive in a single chunk
C3_ChunkingIndependent ==
  Streamed =>
    LET one == DataHandler(ResponseModel(body), <<>>, Received).writes
    IN DataRecords = [j \in 1..Len(one) |-> one[j].record]

AsciiReceived == \A i \in 1..pos : wire[i] < 128

\* while every byte received is ASCII, no chunk can end inside a character:
\* the bytes received are then the processed lines and the carry buffer, and
\* the records written are those of a single chunk
AsciiChunksAreLinesThenCarry ==
  (Streamed /\ AsciiReceived) => Received = JoinLines(processed) \o buffer

AsciiChunkingIndependent ==
  (Streamed /\ AsciiReceived) =>
    LET one == DataHandler(ResponseModel(body), <<>>, Received).writes
    IN DataRecords = [j \in 1..Len(one) |-> one[j].record]

ErrorIs(envelope, param) ==
  /\ envelope.t = "object"
  /\ DOMAIN envelope.f = {"error"}
  /\ DOMAIN envelope.f.error.f = {"message", "type", "param", "code"}
  /\ envelope.f.error.f.type = Str("invalid_request_error")
  /\ envelope.f.error.f.param = Str(param)
  /\ envelope.f.error.f.code = Null

ModelMissing == body.model.t # "string" \/ body.model.s = ""

MessagesMissing == body.messages.t # "array" \/ body.messages.a = <<>>

\* C4: a request whose model is absent, not a string or the empty string is
\* answered 400 with type invalid_request_error, param "model", code null,
\* whatever its messages are
C4_ModelValidatedFirst ==
  (pc # "received" /\ ModelMissing) => (status = 400 /\ ErrorIs(sent, "model"))

C4_Witness ==
  /\ pc = "done" /\ body.model = Num(42) /\ body.messages = Undefined
  /\ status = 400 /\ ErrorIs(sent, "model")

\* C5: a request with a valid model whose messages is absent, not an array or
\* an empty array is answered 400 with type invalid_request_error, param
\* "messages", code null
C5_MessagesValidated ==
  (pc # "received" /\ ~ModelMissing /\ MessagesMissing)
    => (status = 400 /\ ErrorIs(sent, "messages"))

C5_Witness ==
  /\ pc = "done" /\ body.model = Str("gpt-4") /\ body.messages = Arr(<<>>)
  /\ status = 400 /\ ErrorIs(sent, "messages")

\* C6: the model of the upstream request is the table's entry for a name of
\* the table and the default backend model for every other name
C6_ResolverTotal ==
  nimRequest.t = "object" =>
    nimRequest.f.model =
      IF body.model.s \in DOMAIN MODEL_MAPPING
      THEN Str(MODEL_MAPPING[body.model.s])
      ELSE Str("meta/llama-3.1-70b-instruct")

\* C7: the model field of a successful non-streaming response and of every
\* chunk record of a streaming response is the model the client sent
C7_ModelEchoed ==
  /\ status = 200 => sent.f.model = body.model
  /\ \A i \in ChunkIndices : written[i].json.f.model = body.model

C7_Witness ==
  /\ body.model = Str("foo-bar")
  /\ nimRequest.t = "object"
  /\ nimRequest.f.model = Str("meta/llama-3.1-70b-instruct")
  /\ \E i \in ChunkIndices : written[i].json.f.model = Str("foo-bar")

\* the role the upstream event of a line supplies: choices[0].delta.role
UpstreamRole(line) ==
  LET event == JSONParse(Slice(line, 6)).v
  IN OptMember(OptMember(Choice0(event), K_delta), K_role)

DeltaOf(record) == record.json.f.choices.a[1].f.delta

\* C8: the delta of a chunk record has a role member exactly when the
\* upstream event supplied a non-empty role, and then it is that role
C8_RoleOnlyWhenSupplied ==
  \A i \in ChunkIndices :
    LET role == UpstreamRole(processed[origin[i]])
        supplied == role.t = "string" /\ role.s # <<>>
    IN /\ ("role" \in DOMAIN DeltaOf(written[i]).f) <=> supplied
       /\ supplied => DeltaOf(written[i]).f.role = role

C8_Witness ==
  \E i, j \in ChunkIndices :
    /\ UpstreamRole(processed[origin[i]]) = Str(<<>>)
    /\ "role" \notin DOMAIN DeltaOf(written[i]).f
    /\ UpstreamRole(processed[origin[j]]) = Str(<<97, 105>>)
    /\ DeltaOf(written[j]).f.role = Str(<<97, 105>>)

IsCount(v) == v.t = "number" /\ v.n >= 0

\* C9: the body of a successful non-streaming response has every required
\* field and its three usage counters are numbers >= 0
C9_NormalizerTotal ==
  status = 200 =>
    /\ DOMAIN sent.f = {"id", "object", "created", "model", "choices", "usage"}
    /\ Len(sent.f.choices.a) = 1
    /\ DOMAIN sent.f.choices.a[1].f = {"index", "message", "finish_reason"}
    /\ DOMAIN sent.f.choices.a[1].f.message.f = {"role", "content"}
    /\ DOMAIN sent.f.usage.f = {"prompt_tokens", "completion_tokens", "total_tokens"}
    /\ \A c \in DOMAIN sent.f.usage.f : IsCount(sent.f.usage.f[c])

NewlinesReceived == Cardinality({i \in 1..pos : wire[i] = Newline})

\* C10: the records are written in the order of the upstream lines that
\* produced them: the lines are processed in the order received, and a
\* record of an earlier line is written before a record of a later line
C10_RecordsInLineOrder ==
  /\ Len(origin) = Len(written)
  /\ Len(processed) = NewlinesReceived
  /\ \A i \in 1..Len(written) :
       origin[i] # 0 =>
         /\ origin[i] \in 1..Len(processed)
         /\ <<written[i]>> = LineRecords(ResponseModel(body), processed[origin[i]])
  /\ \A i, j \in 1..Len(written) :
       (i < j /\ origin[i] # 0 /\ origin[j] # 0) => origin[i] < origin[j]

C10_Witness ==
  /\ nchunks >= 2
  /\ \E i, j \in 1..Len(written) :
       /\ i < j /\ origin[i] # 0 /\ origin[i] < origin[j]
       /\ written[i] # written[j]

\* the records the complete lines produce, visited in order
RecordsOfLines(lines) ==
  LET w == ForEachLine(ResponseModel(body), lines, 1)
  IN [j \in 1..Len(w) |-> w[j].record]

\* an explicit sentinel line is among the lines processed
ExplicitSentinel ==
  \E k \in 1..Len(processed) :
    StartsWith(processed[k], DataPrefix) /\ Includes(processed[k], DoneToken)

\* C11: when the upstream stream has ended normally, the last record written
\* is the sentinel written by the 'end' handler and the response was closed
\* right after it, also when no upstream line was a sentinel line
C11_EndWritesSentinelThenCloses ==
  upstream = "end" =>
    /\ Len(written) >= 1
    /\ written[Len(written)] = SentinelRecord
    /\ origin[Len(written)] = 0
    /\ ended = 1
    /\ closedAt = Len(written)

C11_Witness ==
  /\ upstream = "end" /\ ~ExplicitSentinel
  /\ \E i \in ChunkIndices : i < Len(written)
  /\ written[Len(written)] = SentinelRecord /\ SentinelCount = 1
  /\ closedAt = Len(written)

\* C12: when the upstream stream has raised an error, the response has been
\* closed with exactly the records of the lines processed before the error:
\* no sentinel and no record of the error is written, no error envelope is
\* sent, and no record written earlier is missing
C12_ErrorClosesSilently ==
  upstream = "error" =>
    /\ ended = 1
    /\ closedAt = Len(written)
    /\ written = RecordsOfLines(processed)
    /\ \A i \in 1..Len(written) : origin[i] # 0
    /\ status = 0
    /\ sent = Undefined

C12_Witness ==
  /\ upstream = "error" /\ ended = 1
  /\ ChunkIndices # {}
  /\ buffer # <<>>

\* C13: once the client has disconnected, no further upstream chunk is
\* received, processed or written
C13_DisconnectStopsProcessing ==
  [][disconnected => (pos' = pos /\ processed' = processed /\ written' = written)]_vars

\* a data line that is not a sentinel line and whose text is not JSON
Malformed(line) ==
  /\ StartsWith(line, DataPrefix)
  /\ ~Includes(Slice(line, 6), DoneToken)
  /\ ~JSONParse(Slice(line, 6)).ok

WellFormed(line) == ~Malformed(line)

\* C14: a malformed data line produces no record and no error response, and
\* the records written by the 'data' handler are those of the lines
\* processed with the malformed lines removed
C14_MalformedLineSkipped ==
  Streamed =>
    /\ DataRecords = RecordsOfLines(SelectSeq(processed, WellFormed))
    /\ \A i \in 1..Len(written) : origin[i] # 0 => WellFormed(processed[origin[i]])
    /\ \A i \in 1..Len(written) : written[i].kind \in {"chunk", "sentinel"}
    /\ status = 0
    /\ sent = Undefined

C14_Witness ==
  \E k \in 1..Len(processed) :
    /\ Malformed(processed[k])
    /\ \E i \in ChunkIndices : origin[i] > k
    /\ \E l \in 1..(k - 1) : ~StartsWith(processed[l], DataPrefix)

HasResponse(error) == "response" \in DOMAIN error.f

\* the message of the upstream's error body, undefined when the response
\* has none
UpstreamMessage(error) ==
  IF /\ HasResponse(error)
     /\ error.f.response.f.data.t = "object"
     /\ "error" \in DOMAIN error.f.response.f.data.f
     /\ error.f.response.f.data.f.error.t = "object"
     /\ "message" \in DOMAIN error.f.response.f.data.f.error.f
     /\ Truthy(error.f.response.f.data.f.error.f.message)
  THEN error.f.response.f.data.f.error.f.message
  ELSE Undefined

\* C15: when axios.post rejects, the client is sent one error envelope: its
\* status is the upstream status when there is an upstream response and 500
\* otherwise, its message the upstream error message when the response has
\* one and otherwise the message of the rejection or 'Internal server
\* error', its type invalid_request_error, its param null, its code the status
C15_DispatchFailureEnvelope ==
  rejected.t = "object" =>
    LET code == IF HasResponse(rejected) THEN rejected.f.response.f.status ELSE Num(500)
        generic == IF Truthy(rejected.f.message) THEN rejected.f.message
                   ELSE Str("Internal server error")
    IN /\ status = code.n
       /\ DOMAIN sent.f = {"error"}
       /\ DOMAIN sent.f.error.f = {"message", "type", "param", "code"}
       /\ sent.f.error.f.message =
            IF UpstreamMessage(rejected).t # "undefined"
            THEN UpstreamMessage(rejected) ELSE generic
       /\ sent.f.error.f.type = Str("invalid_request_error")
       /\ sent.f.error.f.param = Null
       /\ sent.f.error.f.code = code
       /\ written = <<>> /\ ended = 0

C15_Witness ==
  /\ rejected.t = "object" /\ HasResponse(rejected)
  /\ status = 429
  /\ sent.f.error.f.message = Str("rate limited")
  /\ sent.f.error.f.code = Num(429)

C15_WitnessNoResponse ==
  /\ rejected.t = "object" /\ ~HasResponse(rejected)
  /\ status = 500
  /\ sent.f.error.f.message = Str("Internal server error")

\* the options of the upstream request: messages, temperature, max_tokens
\* and stream are the inbound ones or their defaults
UpstreamRequestOptions ==
  nimRequest.t = "object" =>
    /\ DOMAIN nimRequest.f = {"model", "messages", "temperature", "max_tokens", "stream"}
    /\ nimRequest.f.messages = body.messages
    /\ nimRequest.f.temperature =
         IF body.temperature.t = "undefined" THEN DefaultTemperature ELSE body.temperature
    /\ nimRequest.f.max_tokens =
         IF Truthy(body.max_tokens) THEN body.max_tokens ELSE Num(2048)
    /\ nimRequest.f.stream =
         IF Truthy(body.stream) THEN body.stream ELSE Bool(FALSE)

\* C16: the body of the upstream request of a validated request has the
\* resolved model (the table's entry, or the default backend model), the
\* inbound messages, and the inbound temperature, max_tokens and stream or
\* their defaults 0.7, 2048 and false
C16_UpstreamRequestBody ==
  /\ UpstreamRequestOptions
  /\ nimRequest.t = "object" =>
       \/ /\ body.model.s \in DOMAIN MODEL_MAPPING
          /\ nimRequest.f.model = Str(MODEL_MAPPING[body.model.s])
       \/ /\ body.model.s \notin DOMAIN MODEL_MAPPING
          /\ nimRequest.f.model = Str(DEFAULT_NIM_MODEL)

\* the records written for the k-th line processed
RecordsFromLine(k) == {i \in 1..Len(written) : origin[i] = k}

\* the upstream event of a data line
EventOf(line) == JSONParse(Slice(line, 6))

UpstreamContent(line) ==
  OptMember(OptMember(Choice0(EventOf(line).v), K_delta), K_content)

UpstreamFinish(line) == OptMember(Choice0(EventOf(line).v), K_finish_reason)

ContentOf(record) == DeltaOf(record).f.content

FinishOf(record) == record.json.f.choices.a[1].f.finish_reason

\* a line that is not a data line produces nothing, a data line with the
\* token [DONE] produces the sentinel alone, and no line produces two records
NonEventLinesClassified ==
  \A k \in 1..Len(processed) :
    LET line == processed[k]
        recs == RecordsFromLine(k)
    IN /\ Cardinality(recs) <= 1
       /\ ~StartsWith(line, DataPrefix) => recs = {}
       /\ (StartsWith(line, DataPrefix) /\ Includes(Slice(line, 6), DoneToken))
            => \E i \in recs : written[i] = SentinelRecord

\* C17 as stated: besides, every other data line whose text parses as JSON
\* produces one chunk, with the upstream content if present else "" and the
\* upstream finish_reason if present else null
C17_LineClassification ==
  /\ NonEventLinesClassified
  /\ \A k \in 1..Len(processed) :
       LET line == processed[k] IN
       (/\ StartsWith(line, DataPrefix)
        /\ ~Includes(Slice(line, 6), DoneToken)
        /\ EventOf(line).ok)
         => \E i \in RecordsFromLine(k) :
              /\ written[i].kind = "chunk"
              /\ ContentOf(written[i]) =
                   IF UpstreamContent(line).t # "undefined"
                   THEN UpstreamContent(line) ELSE Str(<<>>)
              /\ FinishOf(written[i]) =
                   IF UpstreamFinish(line).t # "undefined"
                   THEN UpstreamFinish(line) ELSE Null

\* C17 amended: every other data line whose text parses as a JSON value
\* other than null produces one chunk, with the upstream content if it is
\* truthy else "" and the upstream finish_reason if it is truthy else null;
\* a line whose text is the JSON value null produces nothing
C17_LineClassificationAmended ==
  /\ NonEventLinesClassified
  /\ \A k \in 1..Len(processed) :
       LET line == processed[k] IN
       (/\ StartsWith(line, DataPrefix)
        /\ ~Includes(Slice(line, 6), DoneToken)
        /\ EventOf(line).ok)
         => IF EventOf(line).v.t = "null" THEN RecordsFromLine(k) = {}
            ELSE \E i \in RecordsFromLine(k) :
              /\ written[i].kind = "chunk"
              /\ ContentOf(written[i]) =
                   IF Truthy(UpstreamContent(line))
                   THEN UpstreamContent(line) ELSE Str(<<>>)
              /\ FinishOf(written[i]) =
                   IF Truthy(UpstreamFinish(line))
                   THEN UpstreamFinish(line) ELSE Null

C17_Witness ==
  \E k, l \in 1..Len(processed) :
    /\ processed[k] = LineContentNull /\ processed[l] = LineNumber
    /\ \E i \in RecordsFromLine(k) :
         ContentOf(written[i]) = Str(<<>>) /\ FinishOf(written[i]) = Null
    /\ \E i \in RecordsFromLine(l) : written[i].kind = "chunk"

C17_WitnessNull ==
  \E k \in 1..Len(processed) :
    /\ processed[k] = LineNull
    /\ \E i \in ChunkIndices : origin[i] > k

\* C19: res.end() is called at most once, and every record written was
\* written before it
C19_ClosedOnceNoWriteAfter ==
  /\ ended <= 1
  /\ ended = 0 => closedAt = -1
  /\ ended >= 1 => closedAt = Len(written)

C19_Witness ==
  /\ ended = 1 /\ upstream = "end"
  /\ nchunks >= 2
  /\ ChunkIndices # {}
  /\ closedAt = Len(written)

\* C20: when the upstream stream ends normally with a non-empty carry
\* buffer, the buffer is not processed as a line: the records written are
\* those of the complete lines followed by the sentinel alone
C20_CarryDiscardedAtEnd ==
  (upstream = "end" /\ buffer # <<>>) =>
    /\ Len(processed) = NewlinesReceived
    /\ written = RecordsOfLines(processed) \o <<SentinelRecord>>
    /\ \A i \in 1..Len(written) : origin[i] <= NewlinesReceived

C20_Witness ==
  /\ upstream = "end"
  /\ buffer = LineContentA
  /\ LineRecords(ResponseModel(body), buffer) # <<>>
  /\ NewlinesReceived >= 1
  /\ written = RecordsOfLines(processed) \o <<SentinelRecord>>

\* C18: whatever the interleaving of the events of the two requests, the
\* records written to each client, and the calls of its res.end(), are those
\* of the same request fed the same events alone
C18_RequestsDoNotInterfere ==
  \A r \in Clients :
    /\ creq[r].written = alone[r].written
    /\ cbuffer[r] = alone[r].buffer
    /\ creq[r].ended <= 1

\* both requests have a partial line in their buffers between two chunks,
\* and each has been written records of its own
C18_Witness ==
  /\ \A r \in Clients :
       /\ creq[r].pc = "streaming"
       /\ creq[r].nchunks >= 2
       /\ cbuffer[r] # <<>>
       /\ creq[r].written # <<>>
  /\ creq[1].written # creq[2].written
  /\ cbuffer[1] # cbuffer[2]

=============================================================================
